---- MODULE Spec2Model ----
(***************************************************************************)
(* Enrollment admission and capacity engine of the LMS backend             *)
(* (src/routes/enrollments.js), over the Enrollment, CoursesAssigned,      *)
(* Registration, User and Setting tables it reads and writes.              *)
(*                                                                         *)
(* Strings whose letter case or spacing the code inspects (status labels,  *)
(* role names) are sequences of one-character strings, so that trim(),     *)
(* toUpperCase() and the regex replace are computed, not assumed.          *)
(* Nullable columns that hold numbers or documents are <<>> (null) or      *)
(* <<v>>; nullable id columns use the string NULL.                         *)
(***************************************************************************)
EXTENDS Integers, Sequences, FiniteSets, TLC

(* ------------------------------ bounds --------------------------------- *)

\* last value of the clock
MaxClock == 3
\* calls that may be in flight together
MaxCalls == 2
\* rows ever created per (studentId, courseId) pair
MaxIncarnations == 2

(* ------------------------------ nullable values ------------------------ *)

NULL == "NULL"
Null == <<>>
Some(v) == <<v>>
IsNull(x) == x = <<>>
Val(x) == x[1]

(* ------------------------------ strings -------------------------------- *)

LowerLetters ==
  <<"a","b","c","d","e","f","g","h","i","j","k","l","m",
    "n","o","p","q","r","s","t","u","v","w","x","y","z">>
UpperLetters ==
  <<"A","B","C","D","E","F","G","H","I","J","K","L","M",
    "N","O","P","Q","R","S","T","U","V","W","X","Y","Z">>
Digits == {"0","1","2","3","4","5","6","7","8","9"}

LowerSet == {LowerLetters[i] : i \in DOMAIN LowerLetters}
UpperSet == {UpperLetters[i] : i \in DOMAIN UpperLetters}
UpperOf ==
  [c \in LowerSet |-> UpperLetters[CHOOSE i \in DOMAIN LowerLetters : LowerLetters[i] = c]]

ToUpperChar(c) == IF c \in LowerSet THEN UpperOf[c] ELSE c

\* String.prototype.toUpperCase
ToUpperCase(s) == [i \in DOMAIN s |-> ToUpperChar(s[i])]

IsSpace(c) == c = " "

RECURSIVE TrimStart(_)
TrimStart(s) ==
  IF s # <<>> /\ IsSpace(Head(s)) THEN TrimStart(Tail(s)) ELSE s

RECURSIVE TrimEnd(_)
TrimEnd(s) ==
  IF s # <<>> /\ IsSpace(s[Len(s)]) THEN TrimEnd(SubSeq(s, 1, Len(s) - 1)) ELSE s

\* String.prototype.trim
Trim(s) == TrimEnd(TrimStart(s))

IsAlnumUpper(c) == c \in UpperSet \/ c \in Digits

\* s.replace(/[^A-Z0-9]+/g, "_"): every maximal run of other characters
\* becomes one underscore
RECURSIVE ReplaceNonAlnum(_, _)
ReplaceNonAlnum(s, inRun) ==
  IF s = <<>> THEN <<>>
  ELSE IF IsAlnumUpper(Head(s)) THEN <<Head(s)>> \o ReplaceNonAlnum(Tail(s), FALSE)
  ELSE IF inRun THEN ReplaceNonAlnum(Tail(s), TRUE)
  ELSE <<"_">> \o ReplaceNonAlnum(Tail(s), TRUE)

STR_ADMIN == <<"A","D","M","I","N">>
STR_SUPER_ADMIN == <<"S","U","P","E","R","_","A","D","M","I","N">>
STR_INSTRUCTOR == <<"I","N","S","T","R","U","C","T","O","R">>
STR_STUDENT == <<"S","T","U","D","E","N","T">>
STR_superadmin == <<"s","u","p","e","r","a","d","m","i","n">>
STR_PENDING == <<"P","E","N","D","I","N","G">>
STR_APPROVED == <<"A","P","P","R","O","V","E","D">>
STR_REJECTED == <<"R","E","J","E","C","T","E","D">>

STR_approved_sp == <<"a","p","p","r","o","v","e","d"," ">>
STR_ONHOLD == <<"O","N","H","O","L","D">>
STR_pending == <<"p","e","n","d","i","n","g">>
STR_approved == <<"a","p","p","r","o","v","e","d">>

\* The role and status strings that occur in the tables, the configurations
\* and the calls; the three conversions are tabulated over them once.
RoleStrings ==
  {STR_ADMIN, STR_SUPER_ADMIN, STR_INSTRUCTOR, STR_STUDENT, STR_superadmin}
StatusStrings ==
  {STR_PENDING, STR_APPROVED, STR_REJECTED, STR_approved_sp, STR_ONHOLD,
   STR_pending, STR_approved}

NormOf == [s \in RoleStrings |-> ReplaceNonAlnum(ToUpperCase(s), FALSE)]
UpOf == [s \in RoleStrings |-> ToUpperCase(s)]
NormStatusOf == [s \in StatusStrings |-> ToUpperCase(Trim(s))]

norm(s) == NormOf[s]
up(s) == UpOf[s]
normStatus(s) == NormStatusOf[s]

\* a role test that lets instructors through as well
isAdminOrInstructor(role) ==
  norm(role) \in {STR_ADMIN, STR_SUPER_ADMIN, STR_INSTRUCTOR}
isAdmin(role) == norm(role) \in {STR_ADMIN, STR_SUPER_ADMIN}
\* a role test that lets admins through as well
isInstructorOrAdmin(role) ==
  norm(role) \in {STR_INSTRUCTOR, STR_ADMIN, STR_SUPER_ADMIN}
isInstructor(role) == norm(role) = STR_INSTRUCTOR
isStudent(role) == norm(role) = STR_STUDENT

\* Array.prototype.includes / map on sequences
Includes(seq, x) == \E i \in DOMAIN seq : seq[i] = x
Map(seq, Op(_)) == [i \in DOMAIN seq |-> Op(seq[i])]
Range(seq) == {seq[i] : i \in DOMAIN seq}

(* ------------------------------ fixed tables --------------------------- *)

\* User rows: id, email, role, permissions (null or {collegeId, departmentIds})
users ==
  { [id |-> "adm", email |-> "adm@x", role |-> STR_ADMIN, permissions |-> Null],
    [id |-> "sa", email |-> "sa@x", role |-> STR_superadmin, permissions |-> Null],
    [id |-> "iA", email |-> "iA@x", role |-> STR_INSTRUCTOR, permissions |-> Null],
    [id |-> "iB", email |-> "iB@x", role |-> STR_INSTRUCTOR,
     permissions |-> Some([collegeId |-> "X", departmentIds |-> <<"B">>])],
    [id |-> "s1", email |-> "s1@x", role |-> STR_STUDENT, permissions |-> Null],
    [id |-> "s2", email |-> "s2@x", role |-> STR_STUDENT, permissions |-> Null],
    [id |-> "s3", email |-> "s3@x", role |-> STR_STUDENT, permissions |-> Null],
    [id |-> "s4", email |-> "s4@x", role |-> STR_STUDENT, permissions |-> Null] }

Students == {"s1", "s2", "s3"}
Courses == {"c1"}
\* req.user of a call: a user id, or "anon" when no session is attached
Callers == {u.id : u \in users} \cup {"anon"}

\* Registration rows
registration ==
  { [email |-> "s1@x", role |-> STR_STUDENT, status |-> STR_APPROVED,
     collegeId |-> "X", departmentId |-> "A", createdAt |-> 1, updatedAt |-> 1],
    [email |-> "s2@x", role |-> STR_STUDENT, status |-> STR_APPROVED,
     collegeId |-> "Y", departmentId |-> NULL, createdAt |-> 1, updatedAt |-> 1],
    [email |-> "s2@x", role |-> STR_STUDENT, status |-> STR_APPROVED,
     collegeId |-> "X", departmentId |-> "A", createdAt |-> 2, updatedAt |-> 2],
    [email |-> "s3@x", role |-> STR_STUDENT, status |-> STR_APPROVED,
     collegeId |-> "X", departmentId |-> NULL, createdAt |-> 1, updatedAt |-> 1],
    [email |-> "s4@x", role |-> STR_STUDENT, status |-> STR_PENDING,
     collegeId |-> NULL, departmentId |-> NULL, createdAt |-> 1, updatedAt |-> 1],
    [email |-> "iA@x", role |-> STR_INSTRUCTOR, status |-> STR_APPROVED,
     collegeId |-> "X", departmentId |-> "A", createdAt |-> 1, updatedAt |-> 1] }

\* CoursesAssigned rows of course c1
RowCollege(cap) ==
  [id |-> "asgX", courseId |-> "c1", collegeId |-> "X", departmentId |-> NULL,
   capacity |-> cap]
RowDeptA(cap) ==
  [id |-> "asgXA", courseId |-> "c1", collegeId |-> "X", departmentId |-> "A",
   capacity |-> cap]
RowDeptB(cap) ==
  [id |-> "asgXB", courseId |-> "c1", collegeId |-> "X", departmentId |-> "B",
   capacity |-> cap]

RowCollegeY(cap) ==
  [id |-> "asgY", courseId |-> "c1", collegeId |-> "Y", departmentId |-> NULL,
   capacity |-> cap]

\* The CoursesAssigned tables the model starts from, each in storage order:
\* a findFirst without orderBy returns the first stored row that matches.
AssignmentTables ==
  { <<RowCollege(Some(1))>>,
    <<RowDeptA(Some(1)), RowCollege(Some(2))>>,
    <<RowCollege(Some(2)), RowDeptA(Some(1))>>,
    <<RowDeptB(Some(1))>> }

\* Values of the Setting row "enrollment.statusConfig" (null: no row)
SettingValues ==
  { Null,
    Some([allowed |-> <<STR_PENDING, STR_APPROVED>>,
          approved_like |-> <<STR_APPROVED>>]) }

\* nextStatus strings sent by callers
TargetStatuses == {STR_APPROVED, STR_REJECTED, STR_approved_sp}
\* the same, with a string no configuration holds
AnyStatuses == TargetStatuses \cup {STR_ONHOLD, STR_PENDING}

(* ------------------------------ state ---------------------------------- *)

VARIABLES
  coursesAssigned,  \* the CoursesAssigned table, in storage order
  setting,          \* value of Setting "enrollment.statusConfig"
  enrollments,      \* the Enrollment table: a set of rows
  incarnations,     \* rows created so far per (studentId, courseId)
  now,              \* the clock read by new Date()
  last,             \* the call that completed last, with its response
  reqs              \* calls in flight: what each read, and its response

vars == <<coursesAssigned, setting, enrollments, incarnations, now, last, reqs>>

Pairs == Students \X Courses
EnrollmentIds == {<<p[1], p[2], k>> : p \in Pairs, k \in 1..MaxIncarnations}

(* ------------------------------ queries -------------------------------- *)

\* findFirst over a stored sequence of rows
FirstMatch(rows, Match(_)) ==
  IF \E i \in DOMAIN rows : Match(rows[i])
  THEN Some(rows[CHOOSE i \in DOMAIN rows :
                   Match(rows[i]) /\ \A j \in 1..(i - 1) : ~Match(rows[j])])
  ELSE Null

\* findFirst ... orderBy: { <field>: "desc" } over Registration
LatestByUpdatedAt(rows) ==
  IF rows = {} THEN Null
  ELSE Some(CHOOSE r \in rows : \A o \in rows : o.updatedAt <= r.updatedAt)
LatestByCreatedAt(rows) ==
  IF rows = {} THEN Null
  ELSE Some(CHOOSE r \in rows : \A o \in rows : o.createdAt <= r.createdAt)

FindUser(id) ==
  IF \E u \in users : u.id = id THEN Some(CHOOSE u \in users : u.id = id) ELSE Null

FindEnrollment(id) ==
  IF \E e \in enrollments : e.id = id
  THEN Some(CHOOSE e \in enrollments : e.id = id) ELSE Null

\* the lookup that never tries the department row
findAssignmentCollegeWideOnly(courseId, collegeId, departmentId) ==
  IF collegeId = NULL THEN Null
  ELSE FirstMatch(coursesAssigned,
         LAMBDA a : a.courseId = courseId /\ a.collegeId = collegeId
                    /\ a.departmentId = NULL)

findAssignmentForContext(courseId, collegeId, departmentId) ==
  IF collegeId = NULL THEN Null
  ELSE LET deptAssign ==
             FirstMatch(coursesAssigned,
               LAMBDA a : a.courseId = courseId /\ a.collegeId = collegeId
                          /\ a.departmentId = departmentId)
       IN IF departmentId # NULL /\ ~IsNull(deptAssign) THEN deptAssign
          ELSE FirstMatch(coursesAssigned,
                 LAMBDA a : a.courseId = courseId /\ a.collegeId = collegeId
                            /\ a.departmentId = NULL)

countApprovedLikeAtDepartment(courseId, departmentId, approvedLikeStatuses) ==
  IF departmentId = NULL THEN 0
  ELSE Cardinality({e \in enrollments :
         /\ e.courseId = courseId
         /\ e.departmentId = departmentId
         /\ Includes(approvedLikeStatuses, e.status)})

getStudentOrgContext(userLike) ==
  IF userLike.email = "" THEN Null
  ELSE LatestByUpdatedAt({r \in registration : r.email = userLike.email})

\* the lookup without its collegeId filter
findAssignmentAnyCollege(courseId, collegeId) ==
  IF courseId = NULL \/ collegeId = NULL THEN Null
  ELSE FirstMatch(coursesAssigned, LAMBDA a : a.courseId = courseId)

findAssignmentForCollege(courseId, collegeId) ==
  IF courseId = NULL \/ collegeId = NULL THEN Null
  ELSE FirstMatch(coursesAssigned,
         LAMBDA a : a.courseId = courseId /\ a.collegeId = collegeId)

DefaultStatusConfig ==
  [allowed |-> <<STR_PENDING, STR_APPROVED, STR_REJECTED>>,
   approved_like |-> <<STR_APPROVED>>]

\* a loader that falls back to the default approved_like when the list is empty
loadStatusConfigFillingEmpty ==
  IF IsNull(setting) THEN DefaultStatusConfig
  ELSE IF Val(setting).approved_like = <<>>
  THEN [Val(setting) EXCEPT !.approved_like = DefaultStatusConfig.approved_like]
  ELSE Val(setting)

loadEnrollmentStatusConfig ==
  IF IsNull(setting) THEN DefaultStatusConfig ELSE Val(setting)

\* The college count without its status filter
countAllAtCollege(courseId, collegeId, approvedLikeStatuses) ==
  Cardinality({e \in enrollments :
     /\ e.courseId = courseId
     /\ \E u \in users :
           /\ u.id = e.studentId
           /\ ~IsNull(LatestByUpdatedAt({r \in registration : r.email = u.email}))
           /\ Val(LatestByUpdatedAt({r \in registration : r.email = u.email})).collegeId
                 = collegeId})

countApprovedLikeAtCollege(courseId, collegeId, approvedLikeStatuses) ==
  LET approvedRows == {e \in enrollments :
                         e.courseId = courseId
                         /\ Includes(approvedLikeStatuses, e.status)}
      students == {u \in users : \E e \in approvedRows : e.studentId = u.id}
      regs == {r \in registration : \E s \in students : s.email = r.email}
      latestCollegeByEmail(email) ==
        LatestByUpdatedAt({r \in regs : r.email = email})
  IN Cardinality({row \in approvedRows :
       \E stu \in students :
          /\ stu.id = row.studentId
          /\ ~IsNull(latestCollegeByEmail(stu.email))
          /\ Val(latestCollegeByEmail(stu.email)).collegeId = collegeId})

(* ------------------------------ eligibility ---------------------------- *)

getInstructorAffiliation(userId) ==
  LET user == FindUser(userId) IN
  IF IsNull(user) THEN Null
  ELSE LET reg == LatestByCreatedAt({r \in registration :
                    /\ r.email = Val(user).email
                    /\ ToUpperCase(r.role) = STR_INSTRUCTOR
                    /\ r.status = STR_APPROVED})
           perms == Val(user).permissions
       IN IF ~IsNull(reg)
          THEN Some([collegeId |-> Val(reg).collegeId,
                     departmentIds |-> IF Val(reg).departmentId # NULL
                                       THEN {Val(reg).departmentId} ELSE {}])
          ELSE IF IsNull(perms)
          THEN Some([collegeId |-> NULL, departmentIds |-> {}])
          ELSE Some([collegeId |-> Val(perms).collegeId,
                     departmentIds |-> Range(Val(perms).departmentIds) \ {NULL}])

isEligibleInstructorForEnrollment(userId, enrollmentId) ==
  LET u == FindUser(userId)
      enr == FindEnrollment(enrollmentId)
      aff == getInstructorAffiliation(userId)
  IN IF IsNull(u) THEN FALSE
     ELSE IF up(Val(u).role) \in {STR_SUPER_ADMIN, STR_ADMIN} THEN TRUE
     ELSE IF up(Val(u).role) # STR_INSTRUCTOR THEN FALSE
     ELSE IF IsNull(enr) THEN FALSE
     ELSE IF IsNull(aff) THEN FALSE
     ELSE IF Val(enr).departmentId # NULL
     THEN Val(enr).departmentId \in Val(aff).departmentIds
     ELSE \E i \in DOMAIN coursesAssigned :
            LET a == coursesAssigned[i] IN
            /\ a.courseId = Val(enr).courseId
            /\ \/ a.departmentId # NULL /\ a.departmentId \in Val(aff).departmentIds
               \/ /\ a.departmentId = NULL
                  /\ Val(aff).collegeId # NULL
                  /\ Val(aff).collegeId = a.collegeId

\* A gate that looks at the caller's role only
ensureCanModerateAny(user, courseId) == isAdmin(user.role) \/ isInstructor(user.role)

ensureCanModerateCourse(user, courseId) ==
  IF isAdmin(user.role) THEN TRUE
  ELSE IF ~isInstructor(user.role) THEN FALSE
  ELSE LET instrReg == LatestByUpdatedAt({r \in registration : r.email = user.email})
       IN IF IsNull(instrReg) \/ Val(instrReg).departmentId = NULL THEN FALSE
          ELSE \E i \in DOMAIN coursesAssigned :
                 /\ coursesAssigned[i].courseId = courseId
                 /\ coursesAssigned[i].departmentId = Val(instrReg).departmentId

(* ------------------------------ calls ---------------------------------- *)

\* A call and its response. outcome "Pending": every read of the handler is
\* done and its write is still to be issued; data holds what the write uses.
\*   Unauthorized 401 | Forbidden 403 | NotStudent 403 | NotEligible 400 |
\*   InvalidStatus 400 | NotFound 404 | CourseNotAssigned 409 |
\*   CapacityFull 409 | Conflict 409 | InternalError 500 |
\*   Created 201 | Existing, Updated, Deleted, Listed 200
Call(op, caller, studentId, courseId, ids, next) ==
  [op |-> op, caller |-> caller, studentId |-> studentId, courseId |-> courseId,
   ids |-> ids, next |-> next, outcome |-> "Pending", assignment |-> NULL,
   resolved |-> {}, used |-> Null, data |-> {}, result |-> {}, during |-> {}]

NoCall == Call("none", "anon", NULL, NULL, {}, <<>>)

Errors ==
  {"Unauthorized", "Forbidden", "NotStudent", "NotEligible", "InvalidStatus",
   "NotFound", "CourseNotAssigned", "CapacityFull", "Conflict", "InternalError"}

PairExists(studentId, courseId) ==
  \E e \in enrollments : e.studentId = studentId /\ e.courseId = courseId

\* prisma.enrollment.create: the row the database stores
NewRow(d, startedAt) ==
  [id |-> <<d.studentId, d.courseId, incarnations[<<d.studentId, d.courseId>>] + 1>>,
   studentId |-> d.studentId, courseId |-> d.courseId, status |-> d.status,
   departmentId |-> d.departmentId, startedAt |-> startedAt, progress |-> 0]

\* The table without its unique index
UniqueViolationOff(d) == FALSE

\* The unique index Enrollment_studentId_courseId_key refuses a second row
UniqueViolation(d) == PairExists(d.studentId, d.courseId)

\* A lookup that never finds the row
FindExistingNone(courseId, studentId) == {}

\* prisma.enrollment.findFirst({ where: { courseId, studentId } })
FindExisting(courseId, studentId) ==
  {e \in enrollments : e.courseId = courseId /\ e.studentId = studentId}

\* A handler that skips the membership test
SingleStatusAllowedAny(statusCfg, next) == TRUE

\* the membership tests of nextStatus in the single and in the bulk handler
SingleStatusAllowed(statusCfg, next) ==
  Includes(Map(statusCfg.allowed, normStatus), next)
BulkStatusAllowed(statusCfg, nextStatus) ==
  Includes(statusCfg.allowed, nextStatus)

\* POST /courses/:courseId/enrollment-requests, up to the create
SelfRequestRead(caller, courseId) ==
  LET c == Call("SelfRequest", caller, caller, courseId, {}, <<>>)
      user == FindUser(caller)
      statusCfg == loadEnrollmentStatusConfig
      existing == FindExisting(courseId, caller)
      org == getStudentOrgContext(Val(user))
      assignment == findAssignmentForCollege(courseId, Val(org).collegeId)
      allowed == statusCfg.allowed
      notApproved == {i \in DOMAIN allowed : ~Includes(statusCfg.approved_like, allowed[i])}
      pendingStatus ==
        IF Includes(allowed, STR_PENDING) THEN STR_PENDING
        ELSE IF notApproved # {}
        THEN allowed[CHOOSE i \in notApproved : \A j \in notApproved : i <= j]
        ELSE IF allowed # <<>> THEN allowed[1] ELSE STR_PENDING
  IN IF IsNull(user) THEN [c EXCEPT !.outcome = "Unauthorized"]
     ELSE IF ~isStudent(Val(user).role) THEN [c EXCEPT !.outcome = "NotStudent"]
     ELSE IF existing # {}
     THEN [c EXCEPT !.outcome = "Existing", !.result = {e.id : e \in existing}]
     ELSE IF IsNull(org) \/ Val(org).collegeId = NULL
     THEN [c EXCEPT !.outcome = "NotEligible"]
     ELSE IF IsNull(assignment) THEN [c EXCEPT !.outcome = "CourseNotAssigned"]
     ELSE [c EXCEPT !.assignment = Val(assignment).id,
                    !.resolved = {<<caller, Val(assignment).id>>},
                    !.data = {[studentId |-> caller, courseId |-> courseId,
                               status |-> pendingStatus,
                               departmentId |-> Val(org).departmentId]}]

\* assignment.capacity as the handlers read it: null is no limit
CapacityOf(assignment) == assignment.capacity

\* POST /enrollments, up to the create
AdminGrantRead(caller, studentId, courseId) ==
  LET c == Call("AdminGrant", caller, studentId, courseId, {}, <<>>)
      user == FindUser(caller)
      student == FindUser(studentId)
      statusCfg == loadEnrollmentStatusConfig
      org == getStudentOrgContext(Val(student))
      assignment == findAssignmentForCollege(courseId, Val(org).collegeId)
      approvedLike == statusCfg.approved_like
      approvedStatus == IF approvedLike # <<>> THEN approvedLike[1] ELSE STR_APPROVED
      used == countApprovedLikeAtCollege(courseId, Val(org).collegeId, approvedLike)
      checked == ~IsNull(CapacityOf(Val(assignment))) /\ Includes(approvedLike, approvedStatus)
  IN IF IsNull(user) THEN [c EXCEPT !.outcome = "Unauthorized"]
     ELSE IF ~isAdmin(Val(user).role) THEN [c EXCEPT !.outcome = "Forbidden"]
     ELSE IF IsNull(student) THEN [c EXCEPT !.outcome = "NotFound"]
     ELSE IF IsNull(org) \/ Val(org).collegeId = NULL
     THEN [c EXCEPT !.outcome = "NotEligible"]
     ELSE IF IsNull(assignment) THEN [c EXCEPT !.outcome = "CourseNotAssigned"]
     ELSE IF checked /\ used >= Val(CapacityOf(Val(assignment)))
     THEN [c EXCEPT !.outcome = "CapacityFull", !.assignment = Val(assignment).id,
                    !.resolved = {<<studentId, Val(assignment).id>>},
                    !.used = Some(used)]
     ELSE [c EXCEPT !.assignment = Val(assignment).id,
                    !.resolved = {<<studentId, Val(assignment).id>>},
                    !.used = IF checked THEN Some(used) ELSE Null,
                    !.data = {[studentId |-> studentId, courseId |-> courseId,
                               status |-> approvedStatus,
                               departmentId |-> Val(org).departmentId]}]

\* PATCH /enrollment-requests/:id, up to the update
PatchRead(caller, id, nextStatus) ==
  LET c == Call("Patch", caller, NULL, NULL, {id}, nextStatus)
      next == normStatus(nextStatus)
      statusCfg == loadEnrollmentStatusConfig
      found == FindEnrollment(id)
      enr == Val(found)
      isApprovedLike == Includes(Map(statusCfg.approved_like, normStatus), next)
      studentOrg == getStudentOrgContext(Val(FindUser(enr.studentId)))
      collegeId == IF IsNull(studentOrg) THEN NULL ELSE Val(studentOrg).collegeId
      deptId == IF enr.departmentId # NULL THEN enr.departmentId
                ELSE IF IsNull(studentOrg) THEN NULL
                ELSE Val(studentOrg).departmentId
      found_a == findAssignmentForContext(enr.courseId, collegeId, deptId)
      assignment == Val(found_a)
      used ==
        IF assignment.departmentId # NULL
        THEN countApprovedLikeAtDepartment(enr.courseId, assignment.departmentId,
               Map(statusCfg.approved_like, normStatus))
        ELSE countApprovedLikeAtCollege(enr.courseId, assignment.collegeId,
               Map(statusCfg.approved_like, normStatus))
      c1 == [c EXCEPT !.studentId = enr.studentId, !.courseId = enr.courseId]
      c2 == [c1 EXCEPT !.assignment = assignment.id,
                       !.resolved = {<<enr.studentId, assignment.id>>}]
      Write(cc) == [cc EXCEPT !.data = {[id |-> id, status |-> next,
                                         startedAt |-> enr.startedAt, stamp |-> TRUE]}]
  IN IF caller = "anon" THEN [c EXCEPT !.outcome = "Unauthorized"]
     ELSE IF ~isEligibleInstructorForEnrollment(caller, id)
     THEN [c EXCEPT !.outcome = "Forbidden"]
     ELSE IF ~SingleStatusAllowed(statusCfg, next)
     THEN [c EXCEPT !.outcome = "InvalidStatus"]
     ELSE IF IsNull(found) THEN [c EXCEPT !.outcome = "NotFound"]
     ELSE IF ~isApprovedLike THEN Write(c1)
     ELSE IF IsNull(found_a) THEN [c1 EXCEPT !.outcome = "CourseNotAssigned"]
     ELSE IF IsNull(CapacityOf(assignment)) THEN Write(c2)
     ELSE IF used >= Val(CapacityOf(assignment))
     THEN [c2 EXCEPT !.outcome = "CapacityFull", !.used = Some(used)]
     ELSE Write([c2 EXCEPT !.used = Some(used)])

\* PATCH /enrollment-requests:bulk, up to the transaction
BulkRead(caller, ids, nextStatus) ==
  LET c == Call("Bulk", caller, NULL, NULL, ids, nextStatus)
      user == FindUser(caller)
      statusCfg == loadEnrollmentStatusConfig
      approvedLike == statusCfg.approved_like
      enrs == {e \in enrollments : e.id \in ids}
      AssignmentOf(enr) ==
        LET org == getStudentOrgContext(Val(FindUser(enr.studentId)))
        IN findAssignmentForCollege(enr.courseId,
             IF IsNull(org) THEN NULL ELSE Val(org).collegeId)
      \* the Map keyed `${enr.courseId}:${assignment.collegeId}`
      buckets == {<<e.courseId, Val(AssignmentOf(e)).collegeId>> : e \in enrs}
      ListOf(key) == {e \in enrs : <<e.courseId, Val(AssignmentOf(e)).collegeId>> = key}
      BucketAssignment(key) == Val(AssignmentOf(CHOOSE e \in ListOf(key) : TRUE))
      \* `used` of a bucket (the tables hold one course in one college, so
      \* a batch has one bucket)
      Used(key) ==
        LET assignment == BucketAssignment(key) IN
        IF IsNull(CapacityOf(assignment)) THEN Null
        ELSE Some(countApprovedLikeAtCollege(assignment.courseId,
                    assignment.collegeId, approvedLike))
      Exceeded(key) ==
        LET assignment == BucketAssignment(key) IN
        /\ ~IsNull(CapacityOf(assignment))
        /\ Val(Used(key)) + Cardinality(ListOf(key)) > Val(CapacityOf(assignment))
      Resolved == {<<e.studentId, Val(AssignmentOf(e)).id>> : e \in enrs}
      Updates(withStartedAt) ==
        {[id |-> e.id, status |-> nextStatus, startedAt |-> e.startedAt,
          stamp |-> withStartedAt] : e \in enrs}
  IN IF IsNull(user) THEN [c EXCEPT !.outcome = "Unauthorized"]
     ELSE IF ~isInstructor(Val(user).role) THEN [c EXCEPT !.outcome = "Forbidden"]
     ELSE IF ~BulkStatusAllowed(statusCfg, nextStatus)
     THEN [c EXCEPT !.outcome = "InvalidStatus"]
     ELSE IF enrs = {} THEN [c EXCEPT !.outcome = "Updated"]
     ELSE IF \E e \in enrs : ~ensureCanModerateCourse(Val(user), e.courseId)
     THEN [c EXCEPT !.outcome = "Forbidden"]
     ELSE IF ~Includes(approvedLike, nextStatus)
     THEN [c EXCEPT !.data = Updates(FALSE)]
     ELSE IF \E e \in enrs : IsNull(AssignmentOf(e))
     THEN [c EXCEPT !.outcome = "CourseNotAssigned"]
     ELSE IF \E key \in buckets : Exceeded(key)
     THEN [c EXCEPT !.outcome = "CapacityFull", !.resolved = Resolved,
                    !.assignment = BucketAssignment(CHOOSE key \in buckets : Exceeded(key)).id]
     ELSE [c EXCEPT !.data = Updates(TRUE), !.resolved = Resolved,
                    !.assignment = BucketAssignment(CHOOSE key \in buckets : TRUE).id,
                    !.used = Used(CHOOSE key \in buckets : TRUE)]

\* DELETE /enrollments/:id
DeleteRead(caller, id) ==
  LET c == Call("Delete", caller, NULL, NULL, {id}, <<>>)
      user == FindUser(caller)
  IN IF IsNull(user) THEN [c EXCEPT !.outcome = "Unauthorized"]
     ELSE IF ~isAdmin(Val(user).role) THEN [c EXCEPT !.outcome = "Forbidden"]
     ELSE [c EXCEPT !.data = {id}]

(* ------------------------------ writes --------------------------------- *)

TheData(c) == CHOOSE d \in c.data : TRUE

\* startedAt of a created row: new Date() in POST /enrollments, none in a request
CreatedStartedAt(c) == IF c.op = "AdminGrant" THEN Some(now) ELSE Null

\* An update that also clears the department the row carries
UpdatedRowClearingDepartment(e, d) ==
  [e EXCEPT !.status = d.status, !.departmentId = NULL,
            !.startedAt = IF ~d.stamp THEN e.startedAt
                          ELSE IF IsNull(d.startedAt) THEN Some(now)
                          ELSE d.startedAt]

\* prisma.enrollment.update on one row, with the values the handler computed
UpdatedRow(e, d) ==
  [e EXCEPT !.status = d.status,
            !.startedAt = IF ~d.stamp THEN e.startedAt
                          ELSE IF IsNull(d.startedAt) THEN Some(now)
                          ELSE d.startedAt]

\* A row named by the write is gone: update and delete throw (P2025)
RowMissing(c) ==
  IF c.op = "Delete" THEN \E id \in c.data : IsNull(FindEnrollment(id))
  ELSE \E d \in c.data : IsNull(FindEnrollment(d.id))

\* A handler that throws after its write went through
WriteResponseFailed(c) == [c EXCEPT !.outcome = "InternalError"]

\* The response to call c once its write is issued
WriteResponse(c) ==
  IF c.op \in {"SelfRequest", "AdminGrant"}
  THEN IF UniqueViolation(TheData(c))
       THEN [c EXCEPT !.outcome = IF c.op = "AdminGrant" THEN "Conflict"
                                  ELSE "InternalError"]
       ELSE [c EXCEPT !.outcome = "Created",
                      !.result = {NewRow(TheData(c), CreatedStartedAt(c)).id}]
  ELSE IF RowMissing(c) THEN [c EXCEPT !.outcome = "InternalError"]
  ELSE IF c.op = "Delete" THEN [c EXCEPT !.outcome = "Deleted", !.result = c.data]
  ELSE [c EXCEPT !.outcome = "Updated", !.result = {d.id : d \in c.data}]

\* The write of call c: create, update, transaction of updates, or delete
Write(c) ==
  IF c.op \in {"SelfRequest", "AdminGrant"}
  THEN LET d == TheData(c) IN
       IF UniqueViolation(d)
       THEN UNCHANGED <<enrollments, incarnations>>
       ELSE /\ incarnations[<<d.studentId, d.courseId>>] < MaxIncarnations
            /\ enrollments' = enrollments \cup {NewRow(d, CreatedStartedAt(c))}
            /\ incarnations' = [incarnations EXCEPT ![<<d.studentId, d.courseId>>] = @ + 1]
  ELSE IF RowMissing(c)
  THEN UNCHANGED <<enrollments, incarnations>>
  ELSE IF c.op = "Delete"
  THEN /\ enrollments' = {e \in enrollments : e.id \notin c.data}
       /\ UNCHANGED incarnations
  ELSE /\ enrollments' =
            {IF \E d \in c.data : d.id = e.id
             THEN UpdatedRow(e, CHOOSE d \in c.data : d.id = e.id)
             ELSE e : e \in enrollments}
       /\ UNCHANGED incarnations

\* What is kept of a completed call: its kind, caller and response, the
\* (student, course) pair a create names, the assignment rows it resolved,
\* and whether it repeats the call before it (same kind, caller and pair,
\* the earlier one having returned an enrollment)
Observed(c) ==
  LET pair == c.op \in {"SelfRequest", "AdminGrant"} IN
  [op |-> c.op, caller |-> c.caller,
   studentId |-> IF pair \/ c.op = "View" THEN c.studentId ELSE NULL,
   courseId |-> IF pair THEN c.courseId ELSE NULL,
   outcome |-> c.outcome, result |-> c.result, resolved |-> c.resolved,
   repeat |-> /\ pair
              /\ last.op = c.op /\ last.caller = c.caller
              /\ last.studentId = c.studentId /\ last.courseId = c.courseId
              /\ last.outcome \in {"Created", "Existing"}]

NoObserved ==
  [op |-> "none", caller |-> "anon", studentId |-> NULL, courseId |-> NULL,
   outcome |-> "Pending", result |-> {}, resolved |-> {}, repeat |-> FALSE]

\* A handler run from its first read to its response, nothing in between
Handle(c) ==
  /\ IF c.outcome = "Pending"
     THEN Write(c) /\ last' = Observed(WriteResponse(c))
     ELSE UNCHANGED <<enrollments, incarnations>> /\ last' = Observed(c)
  /\ UNCHANGED <<coursesAssigned, setting, now, reqs>>

(* ------------------------------ inputs --------------------------------- *)

\* an enrollment id that names no row
MissingId == <<"nobody", "c1", 1>>
\* a user id that names no row
MissingUser == "nobody"

ModerationCallers == {"adm", "iA"}
RequestCallers == {"s1", "s2", "iA"}
ExistingIds == {e.id : e \in enrollments}
IdInputs == ExistingIds \cup {MissingId}
BulkInputs == (SUBSET ExistingIds \ {{}}) \cup {{MissingId}}

(* ------------------------------ handlers, run one at a time ------------ *)

SelfRequest(caller, courseId) == Handle(SelfRequestRead(caller, courseId))

AdminGrant(caller, studentId, courseId) ==
  Handle(AdminGrantRead(caller, studentId, courseId))

Patch(caller, id, nextStatus) == Handle(PatchRead(caller, id, nextStatus))

Bulk(caller, ids, nextStatus) == Handle(BulkRead(caller, ids, nextStatus))

Delete(caller, id) == Handle(DeleteRead(caller, id))

\* GET /enrollments?courseId=...: the rows of the course, to whoever asks
ListEnrollments(caller, courseId) ==
  Handle([Call("List", caller, NULL, courseId, {}, <<>>) EXCEPT
            !.outcome = "Listed",
            !.result = {e.id : e \in {x \in enrollments : x.courseId = courseId}}])

\* The tenant replaces (or removes) the Setting row "enrollment.statusConfig"
UpdateSetting(v) ==
  /\ v # setting
  /\ setting' = v
  /\ last' = [NoObserved EXCEPT !.op = "UpdateSetting", !.outcome = "Updated"]
  /\ UNCHANGED <<coursesAssigned, enrollments, incarnations, now, reqs>>

\* Time passes
Tick ==
  /\ now < MaxClock
  /\ now' = now + 1
  /\ UNCHANGED <<coursesAssigned, setting, enrollments, incarnations, last, reqs>>

Slots == 1..MaxCalls

Init ==
  /\ coursesAssigned \in AssignmentTables
  /\ setting \in SettingValues
  /\ enrollments = {}
  /\ incarnations = [p \in Pairs |-> 0]
  /\ now = 1
  /\ last = NoObserved
  /\ reqs = [r \in Slots |-> NoCall]

DoSelfRequest == \E caller \in RequestCallers, courseId \in Courses : SelfRequest(caller, courseId)
DoAdminGrant ==
  \E caller \in ModerationCallers, studentId \in {"s1", "s2", MissingUser},
     courseId \in Courses : AdminGrant(caller, studentId, courseId)
DoPatch ==
  \E caller \in ModerationCallers, id \in IdInputs, nextStatus \in TargetStatuses :
     Patch(caller, id, nextStatus)
DoBulk ==
  \E caller \in ModerationCallers, ids \in BulkInputs, nextStatus \in TargetStatuses :
     Bulk(caller, ids, nextStatus)
DoDelete == \E caller \in ModerationCallers, id \in IdInputs : Delete(caller, id)
DoUpdateSetting == \E v \in SettingValues : UpdateSetting(v)
DoListEnrollments == \E courseId \in Courses : ListEnrollments("iA", courseId)

Next ==
  \/ DoSelfRequest
  \/ DoAdminGrant
  \/ DoPatch
  \/ DoBulk
  \/ DoDelete
  \/ DoListEnrollments
  \/ DoUpdateSetting

Spec == Init /\ [][Next]_vars

(* ------------------------------ handlers that overlap ------------------ *)

\* Every await of a handler yields to the other calls in flight. The reads
\* of a handler are taken together and its write is taken later: the other
\* calls run between the two.

InFlight == {r \in Slots : reqs[r] # NoCall /\ reqs[r].outcome = "Pending"}
FreeSlot(r) == reqs[r] = NoCall /\ \A q \in Slots : q < r => reqs[q] # NoCall

\* Call c starts in slot r and does its reads
Start(r, c) ==
  /\ FreeSlot(r)
  /\ reqs' = [reqs EXCEPT ![r] = [c EXCEPT !.during = InFlight]]
  /\ UNCHANGED <<coursesAssigned, setting, enrollments, incarnations, now, last>>

StartSelfRequest(r, caller, courseId) == Start(r, SelfRequestRead(caller, courseId))
StartAdminGrant(r, caller, studentId, courseId) ==
  Start(r, AdminGrantRead(caller, studentId, courseId))
StartPatch(r, caller, id, nextStatus) == Start(r, PatchRead(caller, id, nextStatus))
StartBulk(r, caller, ids, nextStatus) == Start(r, BulkRead(caller, ids, nextStatus))

\* The call in slot r issues its write and responds
Commit(r) ==
  /\ r \in InFlight
  /\ Write(reqs[r])
  /\ reqs' = [reqs EXCEPT ![r] = WriteResponse(reqs[r])]
  /\ UNCHANGED <<coursesAssigned, setting, now, last>>

\* CoursesAssigned tables of the overlapping runs: one capacity-limited row
ConcTables == { <<RowCollege(Some(1))>>, <<RowDeptA(Some(1))>> }
ConcTargets == {STR_APPROVED, STR_REJECTED}

InitConc ==
  /\ coursesAssigned \in ConcTables
  /\ setting = Null
  /\ enrollments = {}
  /\ incarnations = [p \in Pairs |-> 0]
  /\ now = 1
  /\ last = NoObserved
  /\ reqs = [r \in Slots |-> NoCall]

RequestAlone == \E caller \in {"s1", "s2"}, courseId \in Courses : SelfRequest(caller, courseId)
DoStartPatch ==
  \E r \in Slots, id \in ExistingIds, nextStatus \in ConcTargets :
     StartPatch(r, "adm", id, nextStatus)
DoStartBulk ==
  \E r \in Slots, ids \in SUBSET ExistingIds \ {{}}, nextStatus \in ConcTargets :
     StartBulk(r, "iA", ids, nextStatus)
DoStartAdminGrant ==
  \E r \in Slots, studentId \in {"s1", "s2"}, courseId \in Courses :
     StartAdminGrant(r, "adm", studentId, courseId)
DoStartSelfRequest ==
  \E r \in Slots, caller \in {"s1", "s2"}, courseId \in Courses :
     StartSelfRequest(r, caller, courseId)
DoCommit == \E r \in Slots : Commit(r)

\* Single transitions that overlap, over requests made one at a time
NextRace ==
  \/ RequestAlone
  \/ DoStartPatch
  \/ DoCommit
  \/ Tick

SpecRace == InitConc /\ [][NextRace]_vars

\* Every admission path, overlapping
NextConc ==
  \/ RequestAlone
  \/ DoStartSelfRequest
  \/ DoStartAdminGrant
  \/ DoStartPatch
  \/ DoStartBulk
  \/ DoCommit

SpecConc == InitConc /\ [][NextConc]_vars

\* The sequential handlers with assignments, affiliations and status
\* configuration held fixed
NextFixed ==
  \/ DoSelfRequest
  \/ DoAdminGrant
  \/ DoPatch
  \/ DoBulk
  \/ DoDelete

SpecFixed == Init /\ [][NextFixed]_vars

(* ------------------------------ capacity ------------------------------- *)

\* A row holds a seat when its status, normalised, is one of approved_like
ApprovedLikeNow == Range(Map(loadEnrollmentStatusConfig.approved_like, normStatus))
Occupying(e) == normStatus(e.status) \in ApprovedLikeNow

\* The college a student is affiliated with now
CurrentCollege(studentId) ==
  LET org == getStudentOrgContext(Val(FindUser(studentId)))
  IN IF IsNull(org) THEN NULL ELSE Val(org).collegeId

\* Enrollment e is measured against assignment row a: a department-level row
\* measures the rows that carry its department, a college-wide row the rows of
\* students of its college
InBucket(e, a) ==
  /\ e.courseId = a.courseId
  /\ IF a.departmentId # NULL THEN e.departmentId = a.departmentId
     ELSE CurrentCollege(e.studentId) = a.collegeId

Occupancy(a) == Cardinality({e \in enrollments : Occupying(e) /\ InBucket(e, a)})

AssignmentRows == Range(coursesAssigned)
AssignmentById(id) == CHOOSE a \in AssignmentRows : a.id = id

\* C1: for every assignment row with capacity N, the occupying enrollments of
\* its bucket never number more than N, also while single transitions to an
\* occupying status overlap
C1_CapacityNeverExceeded ==
  \A a \in AssignmentRows :
     ~IsNull(a.capacity) => Occupancy(a) <= Val(a.capacity)

\* The calls issued so far all completed, each a single transition to an
\* occupying status of a different enrollment of the bucket of row a, each
\* started while the earlier ones were still between read and write
ConcurrentApprovals(a) ==
  LET B == {r \in Slots : reqs[r] # NoCall} IN
  /\ \A r \in B :
        /\ reqs[r].op = "Patch"
        /\ normStatus(reqs[r].next) \in ApprovedLikeNow
        /\ reqs[r].outcome # "Pending"
        /\ reqs[r].assignment = a.id
        /\ \A q \in B : q < r => q \in reqs[r].during /\ reqs[q].ids # reqs[r].ids
  /\ ~IsNull(a.capacity)
  /\ Cardinality(B) > Val(a.capacity)

\* C2: of M > N concurrent approvals of distinct pending enrollments of an
\* empty bucket with capacity N, exactly N succeed and the others answer
\* CapacityFull
C2_ExactlyCapacitySucceed ==
  \A a \in AssignmentRows :
     ConcurrentApprovals(a) =>
        LET B == {r \in Slots : reqs[r] # NoCall} IN
        /\ Cardinality({r \in B : reqs[r].outcome = "Updated"}) = Val(a.capacity)
        /\ \A r \in B : reqs[r].outcome \in {"Updated", "CapacityFull"}

\* C3: run one at a time, with assignments, affiliations and configuration
\* fixed, the admission paths leave every department-level bucket and every
\* college-wide bucket with at most as many occupying rows as its capacity
DepartmentBucketsWithinCapacity ==
  \A a \in AssignmentRows :
     (a.departmentId # NULL /\ ~IsNull(a.capacity)) =>
        Cardinality({e \in enrollments :
           Occupying(e) /\ e.courseId = a.courseId
           /\ e.departmentId = a.departmentId}) <= Val(a.capacity)
CollegeBucketsWithinCapacity ==
  \A a \in AssignmentRows :
     (a.departmentId = NULL /\ ~IsNull(a.capacity)) =>
        Cardinality({e \in enrollments :
           Occupying(e) /\ e.courseId = a.courseId
           /\ CurrentCollege(e.studentId) = a.collegeId}) <= Val(a.capacity)
C3_SequentialCapacity ==
  DepartmentBucketsWithinCapacity /\ CollegeBucketsWithinCapacity

\* C4: while a bulk transition to an occupying status is between its
\* occupancy count and its writes, the occupancy of its bucket stays what it
\* counted (no other writer commits into the bucket), and bulk approvals
\* that overlap never fill the bucket past its capacity
C4_BulkCheckAndWriteAtomic ==
  \A r \in Slots :
     (reqs[r].op = "Bulk" /\ ~IsNull(reqs[r].used)) =>
        LET a == AssignmentById(reqs[r].assignment) IN
        /\ reqs[r].outcome = "Pending" => Occupancy(a) = Val(reqs[r].used)
        /\ reqs[r].outcome = "Updated" => Occupancy(a) <= Val(a.capacity)

(* ------------------------------ requests and grants -------------------- *)

\* C5: a self-request that follows a self-request of the same student for
\* the same course returns the same enrollment id, creates no row and leaves
\* the Enrollment table as it was
C5_SelfRequestIdempotent ==
  [][(/\ last.op = "SelfRequest"
      /\ last.outcome \in {"Created", "Existing"}
      /\ last'.op = "SelfRequest"
      /\ last'.caller = last.caller
      /\ last'.courseId = last.courseId)
     => (/\ last'.outcome = "Existing"
         /\ last'.result = last.result
         /\ enrollments' = enrollments
         /\ incarnations' = incarnations)]_vars

C5_RequestedTwice ==
  /\ last.op = "SelfRequest"
  /\ last.repeat
  /\ last.outcome = "Existing"
  /\ \E e \in enrollments : last.result = {e.id} /\ e.studentId = last.caller

\* C6: no two Enrollment rows share (studentId, courseId), however
\* self-requests and admin grants for the pair interleave
C6_OneRowPerPair ==
  \A e, f \in enrollments :
     (e.studentId = f.studentId /\ e.courseId = f.courseId) => e = f

C6_RequestAndGrantOverlapped ==
  \E r, q \in Slots :
     /\ reqs[r].op = "SelfRequest" /\ reqs[q].op = "AdminGrant"
     /\ reqs[r].studentId = reqs[q].studentId
     /\ reqs[r].courseId = reqs[q].courseId
     /\ (r \in reqs[q].during \/ q \in reqs[r].during)
     /\ \/ reqs[r].outcome = "Created" /\ reqs[q].outcome = "Conflict"
        \/ reqs[r].outcome = "InternalError" /\ reqs[q].outcome = "Created"

(* ------------------------------ resolution ----------------------------- *)

\* The department a student is affiliated with now
CurrentDepartment(studentId) ==
  LET org == getStudentOrgContext(Val(FindUser(studentId)))
  IN IF IsNull(org) THEN NULL ELSE Val(org).departmentId

\* C7: where a course has a department-level row and a college-wide row in
\* one college, the row a handler resolves for a student of that department
\* is the department-level one
C7_DepartmentRowPreferred ==
  \A p \in last.resolved :
     LET a == AssignmentById(p[2])
         dept == CurrentDepartment(p[1])
     IN (/\ dept # NULL
         /\ \E d \in AssignmentRows :
               d.courseId = a.courseId /\ d.collegeId = a.collegeId
               /\ d.departmentId = dept
         /\ \E w \in AssignmentRows :
               w.courseId = a.courseId /\ w.collegeId = a.collegeId
               /\ w.departmentId = NULL)
        => a.departmentId = dept

(* ------------------------------ status vocabulary ---------------------- *)

AllowedNow == Range(Map(loadEnrollmentStatusConfig.allowed, normStatus))

\* C8: a single or bulk transition to a status that, normalised, is not in
\* the allowed list loaded now answers InvalidStatus once the caller passed
\* the gate before the test, and a transition answered InvalidStatus writes
\* nothing; this holds after the Setting row was replaced
C8_InvalidStatusRejected ==
  /\ [](\A t \in AnyStatuses :
          normStatus(t) \notin AllowedNow =>
             /\ \A caller \in Callers, id \in IdInputs :
                   LET c == PatchRead(caller, id, t) IN
                   /\ c.outcome \in {"Unauthorized", "Forbidden", "InvalidStatus"}
                   /\ c.data = {}
                   /\ (caller # "anon" /\ isEligibleInstructorForEnrollment(caller, id))
                         => c.outcome = "InvalidStatus"
             /\ \A caller \in Callers, ids \in BulkInputs :
                   LET c == BulkRead(caller, ids, t) IN
                   /\ c.outcome \in {"Unauthorized", "Forbidden", "InvalidStatus"}
                   /\ c.data = {}
                   /\ (~IsNull(FindUser(caller)) /\ isInstructor(Val(FindUser(caller)).role))
                         => c.outcome = "InvalidStatus")
  /\ [][last'.outcome = "InvalidStatus" =>
          (enrollments' = enrollments /\ incarnations' = incarnations)]_vars

\* a transition to REJECTED is refused after a configuration without
\* REJECTED replaced the one under which a row became REJECTED
C8_RemovedStatusRefused ==
  /\ last.op \in {"Patch", "Bulk"}
  /\ last.outcome = "InvalidStatus"
  /\ ~IsNull(setting)
  /\ STR_REJECTED \notin AllowedNow
  /\ \E e \in enrollments : e.status = STR_REJECTED

(* ------------------------------ eligibility isolation ------------------ *)

\* The departments course courseId is assigned to, and whether every
\* assignment of the course is a department-level one
AssignedDepartments(courseId) ==
  {a.departmentId : a \in {x \in AssignmentRows : x.courseId = courseId}} \ {NULL}
OnlyDepartmentAssignments(courseId) ==
  \A a \in AssignmentRows : a.courseId = courseId => a.departmentId # NULL

\* C9: an instructor whose affiliation holds none of the departments a
\* course is assigned to (the course having department-level rows only)
\* never gets a transition applied to, or a listing of, its enrollments
C9_EligibilityIsolation ==
  \A u \in users :
     (/\ last.caller = u.id
      /\ isInstructor(u.role)
      /\ last.op \in {"Patch", "Bulk", "List"}
      /\ last.outcome \in {"Updated", "Listed"})
     => \A e \in enrollments :
           (/\ e.id \in last.result
            /\ OnlyDepartmentAssignments(e.courseId)
            /\ AssignedDepartments(e.courseId)
                  \cap Val(getInstructorAffiliation(u.id)).departmentIds = {})
           => FALSE

(* ------------------------------ startedAt ------------------------------ *)

\* C10: a startedAt that is set keeps its value through every later step,
\* also when two transitions of the row both read it unset
C10_StartedAtNeverChanges ==
  [][\A e \in enrollments : \A f \in enrollments' :
        (f.id = e.id /\ ~IsNull(e.startedAt)) => f.startedAt = e.startedAt]_vars

\* C11: a row whose startedAt is unset and that a step leaves in (or creates
\* in) a status that holds no seat still has startedAt unset after the step:
\* startedAt is written only on entering an occupying status
C11_StartedAtOnlyWhenOccupying ==
  [][\A f \in enrollments' :
        ~Occupying(f) =>
           /\ \A e \in enrollments :
                 (e.id = f.id /\ IsNull(e.startedAt)) => IsNull(f.startedAt)
           /\ (\A e \in enrollments : e.id # f.id) => IsNull(f.startedAt)]_vars

(* ------------------------------ a scripted run ------------------------- *)

\* Course c1 assigned college-wide to college X with capacity 2; s1, s2 and
\* s3, all of college X, request it; an admin approves two of them, tries the
\* third, rejects one of the approved and tries the third again. Which
\* student takes which part, and the spelling of the approval, are free.
\* reqs is here the list of the calls completed so far, in order.

InitScenario ==
  /\ coursesAssigned = <<RowCollege(Some(2))>>
  /\ setting = Null
  /\ enrollments = {}
  /\ incarnations = [p \in Pairs |-> 0]
  /\ now = 1
  /\ last = NoObserved
  /\ reqs = <<>>

\* A handler run from its first read to its response, and recorded
Logged(c) ==
  /\ IF c.outcome = "Pending"
     THEN /\ Write(c)
          /\ last' = Observed(WriteResponse(c))
          /\ reqs' = Append(reqs, WriteResponse(c))
     ELSE /\ UNCHANGED <<enrollments, incarnations>>
          /\ last' = Observed(c)
          /\ reqs' = Append(reqs, c)
  /\ UNCHANGED <<coursesAssigned, setting, now>>

ScenarioRequest ==
  /\ Len(reqs) < 3
  /\ \E s \in Students, courseId \in Courses :
        /\ ~PairExists(s, courseId)
        /\ Logged(SelfRequestRead(s, courseId))

ScenarioApprove ==
  /\ Len(reqs) \in {3, 4, 5, 7}
  /\ \E e \in enrollments, nextStatus \in {STR_APPROVED, STR_approved_sp} :
        /\ e.status = STR_PENDING
        /\ Logged(PatchRead("adm", e.id, nextStatus))

ScenarioReject ==
  /\ Len(reqs) = 6
  /\ \E e \in enrollments :
        /\ e.status = STR_APPROVED
        /\ Logged(PatchRead("adm", e.id, STR_REJECTED))

NextScenario ==
  \/ ScenarioRequest
  \/ ScenarioApprove
  \/ ScenarioReject

SpecScenario == InitScenario /\ [][NextScenario]_vars

OccupyingCount == Cardinality({e \in enrollments : Occupying(e)})
StatusOfCall(c) == {e.status : e \in {x \in enrollments : x.id \in c.ids}}

\* C12: in the scripted run the three requests create PENDING rows, the
\* first two approvals succeed (count 1, then 2), the third is refused with
\* CapacityFull at 2/2 and its row stays PENDING, the rejection brings the
\* count to 1, and the approval of the third student then succeeds (count 2)
C12_EndToEndScenario ==
  LET n == Len(reqs) IN
  /\ \A i \in 1..n : i <= 3 => reqs[i].outcome = "Created"
  /\ n = 3 => /\ Cardinality(enrollments) = 3
              /\ \A e \in enrollments : e.status = STR_PENDING
              /\ OccupyingCount = 0
  /\ n >= 4 => reqs[4].outcome = "Updated"
  /\ n = 4 => OccupyingCount = 1
  /\ n >= 5 => reqs[5].outcome = "Updated"
  /\ n = 5 => OccupyingCount = 2
  /\ n >= 6 => reqs[6].outcome = "CapacityFull" /\ reqs[6].used = Some(2)
  /\ n = 6 => OccupyingCount = 2 /\ StatusOfCall(reqs[6]) = {STR_PENDING}
  /\ n >= 7 => reqs[7].outcome = "Updated"
  /\ n = 7 => OccupyingCount = 1 /\ StatusOfCall(reqs[7]) = {STR_REJECTED}
  /\ n >= 8 => /\ reqs[8].outcome = "Updated"
               /\ reqs[8].ids = reqs[6].ids
               /\ OccupyingCount = 2
               /\ StatusOfCall(reqs[8]) = {STR_APPROVED}

C12_ScenarioCompleted ==
  /\ Len(reqs) = 8
  /\ reqs[6].outcome = "CapacityFull"
  /\ reqs[8].outcome = "Updated"
  /\ OccupyingCount = 2
  /\ \E e \in enrollments : e.status = STR_REJECTED

(* ------------------------------ batches over two courses --------------- *)

\* Course c1 is assigned to department A; course c2 to department B, or to
\* department A with one seat. s1 requests either course, s2 course c2, and callers
\* send bulk transitions over any of the rows.
BulkCourses == {"c1", "c2"}
RowCourse2(departmentId, cap) ==
  [id |-> "asg2", courseId |-> "c2", collegeId |-> "X",
   departmentId |-> departmentId, capacity |-> cap]
BulkTables ==
  { <<RowDeptA(Some(2)), RowCourse2("B", Some(2))>>,
    <<RowDeptA(Some(2)), RowCourse2("A", Some(1))>> }
BulkCallers == {"iA", "adm"}

InitBulk ==
  /\ coursesAssigned \in BulkTables
  /\ setting \in SettingValues
  /\ enrollments = {}
  /\ incarnations = [p \in Students \X BulkCourses |-> 0]
  /\ now = 1
  /\ last = NoObserved
  /\ reqs = [r \in Slots |-> NoCall]

BulkRequest ==
  \E caller \in {"s1", "s2"}, courseId \in BulkCourses :
     /\ caller = "s1" \/ courseId = "c2"
     /\ SelfRequest(caller, courseId)
BulkTransition ==
  \E caller \in BulkCallers, ids \in SUBSET ExistingIds \ {{}},
     nextStatus \in TargetStatuses : Bulk(caller, ids, nextStatus)

NextBulk ==
  \/ BulkRequest
  \/ BulkTransition

SpecBulk == InitBulk /\ [][NextBulk]_vars

\* The gate as the design states it: admins pass; an instructor passes when
\* one of the instructor's departments is a department the course is
\* assigned to, or the course has a college-wide row in the instructor's
\* college; nobody else passes
CanModerate(u, courseId) ==
  \/ isAdmin(u.role)
  \/ /\ isInstructor(u.role)
     /\ LET aff == Val(getInstructorAffiliation(u.id)) IN
        \/ AssignedDepartments(courseId) \cap aff.departmentIds # {}
        \/ \E a \in AssignmentRows :
              /\ a.courseId = courseId /\ a.departmentId = NULL
              /\ aff.collegeId # NULL /\ a.collegeId = aff.collegeId

\* C13: a bulk transition (to a status the handler accepts) naming at least
\* one enrollment whose course the caller may not moderate answers
\* Forbidden and prepares no write, whatever else the batch names; and a
\* bulk transition answered Forbidden changes no row
C13_BulkGateAllOrNothing ==
  /\ [](\A u \in users, ids \in SUBSET ExistingIds, t \in AnyStatuses :
          (/\ BulkStatusAllowed(loadEnrollmentStatusConfig, t)
           /\ \E e \in enrollments : e.id \in ids /\ ~CanModerate(u, e.courseId))
          => LET c == BulkRead(u.id, ids, t) IN
             c.outcome = "Forbidden" /\ c.data = {})
  /\ [][(last'.op = "Bulk" /\ last'.outcome = "Forbidden")
          => (enrollments' = enrollments /\ incarnations' = incarnations)]_vars

\* instructor iA sent a batch holding a row of a course iA moderates and a
\* row of a course iA does not, and was refused
C13_MixedBatchRefused ==
  /\ last.op = "Bulk" /\ last.caller = "iA" /\ last.outcome = "Forbidden"
  /\ \E e, f \in enrollments :
        LET iA == Val(FindUser("iA")) IN
        /\ CanModerate(iA, e.courseId)
        /\ ensureCanModerateCourse(iA, e.courseId)
        /\ ~CanModerate(iA, f.courseId)
        /\ BulkRead("iA", {e.id, f.id}, STR_APPROVED).outcome = "Forbidden"

\* C14: a bulk transition to an occupying status that gets as far as its
\* transaction has, for every assignment row with a capacity, the occupying
\* rows of the bucket plus the rows of the batch in the bucket within the
\* capacity
C14_BulkProjectedWithinCapacity ==
  \A ids \in SUBSET ExistingIds \ {{}}, t \in TargetStatuses :
     LET c == BulkRead("iA", ids, t) IN
     (c.outcome = "Pending" /\ normStatus(t) \in ApprovedLikeNow)
     => \A a \in AssignmentRows :
           ~IsNull(a.capacity) =>
              Occupancy(a)
                + Cardinality({e \in enrollments : e.id \in ids /\ InBucket(e, a)})
              <= Val(a.capacity)

(* ------------------------------ error paths ---------------------------- *)

\* C15: a call (self-request, admin grant, single or bulk transition,
\* delete) that answers an error leaves the Enrollment table as it was
C15_ErrorsWriteNothing ==
  [][(/\ last'.op \in {"SelfRequest", "AdminGrant", "Patch", "Bulk", "Delete"}
      /\ last'.outcome \in Errors)
     => (enrollments' = enrollments /\ incarnations' = incarnations)]_vars

\* a bulk approval was refused for capacity while rows were waiting
C15_BulkRefused ==
  /\ last.op = "Bulk"
  /\ last.outcome = "CapacityFull"
  /\ \E e \in enrollments : e.status = STR_PENDING

\* C16: an admin grant for a (student, course) pair that has a row answers
\* Conflict
C16_GrantOnExistingConflicts ==
  \A studentId \in Students, courseId \in Courses :
     PairExists(studentId, courseId) =>
        LET c == AdminGrantRead("adm", studentId, courseId) IN
        /\ c.outcome = "Pending"
        /\ WriteResponse(c).outcome = "Conflict"

\* C17: for a student who has a row, the capacity check of an admin grant
\* and that of a single transition of the row to the first approved-like
\* status resolve the same assignment row, count the same occupancy and
\* refuse with CapacityFull in the same states
C17_GrantChecksLikeTransition ==
  \A e \in enrollments :
     LET approvedLike == loadEnrollmentStatusConfig.approved_like
         g == AdminGrantRead("adm", e.studentId, e.courseId)
         p == PatchRead("adm", e.id, approvedLike[1])
     IN (/\ approvedLike # <<>>
         /\ g.outcome \in {"Pending", "CapacityFull"}
         /\ p.outcome \in {"Pending", "CapacityFull"})
        => /\ g.assignment = p.assignment
           /\ g.used = p.used
           /\ g.outcome = "CapacityFull" <=> p.outcome = "CapacityFull"

(* ------------------------------ every configuration -------------------- *)

\* Values of the Setting row: none, empty lists, no approved-like status,
\* only approved-like statuses, lowercase values, no PENDING
ConfigValues ==
  { Null,
    Some([allowed |-> <<>>, approved_like |-> <<>>]),
    Some([allowed |-> <<STR_PENDING, STR_REJECTED>>, approved_like |-> <<>>]),
    Some([allowed |-> <<STR_APPROVED>>, approved_like |-> <<STR_APPROVED>>]),
    Some([allowed |-> <<STR_pending, STR_approved>>,
          approved_like |-> <<STR_approved>>]),
    Some([allowed |-> <<STR_APPROVED, STR_ONHOLD, STR_REJECTED>>,
          approved_like |-> <<STR_APPROVED>>]) }
ConfigTargets == {STR_APPROVED, STR_approved, STR_PENDING, STR_REJECTED}

InitConfig ==
  /\ coursesAssigned = <<RowDeptA(Some(1))>>
  /\ setting \in ConfigValues
  /\ enrollments = {}
  /\ incarnations = [p \in Pairs |-> 0]
  /\ now = 1
  /\ last = NoObserved
  /\ reqs = [r \in Slots |-> NoCall]

ConfigRequest == \E caller \in {"s1", "s2"}, courseId \in Courses : SelfRequest(caller, courseId)
ConfigGrant ==
  \E studentId \in {"s1", "s2"}, courseId \in Courses :
     AdminGrant("adm", studentId, courseId)
ConfigPatch ==
  \E id \in ExistingIds, nextStatus \in ConfigTargets : Patch("adm", id, nextStatus)
ConfigBulk ==
  \E ids \in SUBSET ExistingIds \ {{}}, nextStatus \in ConfigTargets :
     Bulk("iA", ids, nextStatus)

NextConfig ==
  \/ ConfigRequest
  \/ ConfigGrant
  \/ ConfigPatch
  \/ ConfigBulk

SpecConfig == InitConfig /\ [][NextConfig]_vars

\* C18: the row a self-request creates holds no seat, and is PENDING when
\* the allowed list holds PENDING, under every configuration
C18_RequestNeverOccupies ==
  (last.op = "SelfRequest" /\ last.outcome = "Created") =>
     \A e \in enrollments :
        e.id \in last.result =>
           /\ ~Occupying(e)
           /\ ~Includes(loadEnrollmentStatusConfig.approved_like, e.status)
           /\ Includes(loadEnrollmentStatusConfig.allowed, STR_PENDING)
                 => e.status = STR_PENDING

\* C19: every status stored in an Enrollment row is, compared after
\* normalisation, one of the allowed list of the configuration
C19_StoredStatusAllowed ==
  \A e \in enrollments : normStatus(e.status) \in AllowedNow

(* ------------------------------ request eligibility -------------------- *)

\* Tables with and without a row of college X for course c1
EligibilityTables ==
  { <<>>,
    <<RowCollegeY(Some(1))>>,
    <<RowCollegeY(Some(1)), RowDeptA(Some(1))>>,
    <<RowCollege(Some(1))>> }
EligibilityStudents == {"s1", "s2", "s4"}

InitEligibility ==
  /\ coursesAssigned \in EligibilityTables
  /\ setting \in SettingValues
  /\ enrollments = {}
  /\ incarnations = [p \in Pairs |-> 0]
  /\ now = 1
  /\ last = NoObserved
  /\ reqs = [r \in Slots |-> NoCall]

EligibilityRequest ==
  \E caller \in EligibilityStudents, courseId \in Courses : SelfRequest(caller, courseId)
EligibilityPatch ==
  \E id \in ExistingIds, nextStatus \in TargetStatuses : Patch("adm", id, nextStatus)
EligibilityDelete == \E id \in ExistingIds : Delete("adm", id)

NextEligibility ==
  \/ EligibilityRequest
  \/ EligibilityPatch
  \/ EligibilityDelete

SpecEligibility == InitEligibility /\ [][NextEligibility]_vars

\* the course has a CoursesAssigned row of the student's current college
AssignedToCollegeOf(studentId, courseId) ==
  /\ CurrentCollege(studentId) # NULL
  /\ \E a \in AssignmentRows :
        a.courseId = courseId /\ a.collegeId = CurrentCollege(studentId)

\* C20: for a student with no enrollment for the course, a self-request
\* answers NotEligible when the student has no college, CourseNotAssigned
\* when the college has no assignment row for the course, and prepares a row
\* only when such an assignment row exists; the two refusals and every
\* created row respect this in the Enrollment table
C20_RequestNeedsAssignment ==
  /\ [](\A studentId \in EligibilityStudents, courseId \in Courses :
          LET c == SelfRequestRead(studentId, courseId) IN
          ~PairExists(studentId, courseId) =>
             /\ CurrentCollege(studentId) = NULL =>
                   (c.outcome = "NotEligible" /\ c.data = {})
             /\ (CurrentCollege(studentId) # NULL
                   /\ ~AssignedToCollegeOf(studentId, courseId)) =>
                   (c.outcome = "CourseNotAssigned" /\ c.data = {})
             /\ c.data # {} => AssignedToCollegeOf(studentId, courseId))
  /\ [][last'.op = "SelfRequest" =>
          /\ last'.outcome \in {"NotEligible", "CourseNotAssigned"} =>
                (enrollments' = enrollments /\ incarnations' = incarnations)
          /\ last'.outcome = "Created" =>
                AssignedToCollegeOf(last'.studentId, last'.courseId)]_vars

C20_RefusedForCollege ==
  /\ last.op = "SelfRequest"
  /\ last.studentId = "s1"
  /\ last.outcome = "CourseNotAssigned"
  /\ ~PairExists("s1", "c1")
  /\ AssignmentRows # {}

(* ------------------------------ capacity values ------------------------ *)

\* C21: a single transition to an occupying status whose resolved assignment
\* row has a capacity is refused with CapacityFull whenever the occupying
\* enrollments of that row's bucket number at least the capacity, and the
\* refusal leaves the Enrollment table as it was
C21_FullBucketRefusesTransition ==
  /\ [](\A e \in enrollments, nextStatus \in ConfigTargets :
          LET p == PatchRead("adm", e.id, nextStatus) IN
          (/\ normStatus(nextStatus) \in AllowedNow
           /\ normStatus(nextStatus) \in ApprovedLikeNow
           /\ p.assignment # NULL
           /\ ~IsNull(AssignmentById(p.assignment).capacity)
           /\ Occupancy(AssignmentById(p.assignment))
                 >= Val(AssignmentById(p.assignment).capacity))
             => (p.outcome = "CapacityFull" /\ p.data = {}))
  /\ [][(last'.op = "Patch" /\ last'.outcome = "CapacityFull")
          => enrollments' = enrollments]_vars

\* Tables where the row is unlimited, closed or has one seat, college-wide or
\* of department A, alone or beside a row of the other level
CapacityTables ==
  { <<RowCollege(Null)>>, <<RowDeptA(Null)>>,
    <<RowCollege(Some(0))>>, <<RowDeptA(Some(0))>>,
    <<RowCollege(Some(1))>>,
    <<RowCollege(Some(1)), RowDeptA(Null)>>,
    <<RowCollege(Null), RowDeptA(Some(0))>> }

InitCapacity ==
  /\ coursesAssigned \in CapacityTables
  /\ setting \in SettingValues \cup
       {Some([allowed |-> <<STR_pending, STR_approved>>,
              approved_like |-> <<STR_approved>>]),
        Some([allowed |-> <<STR_PENDING, STR_APPROVED>>, approved_like |-> <<>>])}
  /\ enrollments = {}
  /\ incarnations = [p \in Pairs |-> 0]
  /\ now = 1
  /\ last = NoObserved
  /\ reqs = [r \in Slots |-> NoCall]

SpecCapacity == InitCapacity /\ [][NextConfig]_vars

\* The assignment row that applies to a student of a course: the row of the
\* department (the enrollment's, else the student's) when there is one, else
\* the college-wide row
ResolvedFor(studentId, courseId, departmentId) ==
  findAssignmentForContext(courseId, CurrentCollege(studentId),
    IF departmentId # NULL THEN departmentId ELSE CurrentDepartment(studentId))
ResolvedForRow(e) == ResolvedFor(e.studentId, e.courseId, e.departmentId)
Unlimited(found) == ~IsNull(found) /\ IsNull(Val(found).capacity)
Closed(found) == ~IsNull(found) /\ Val(found).capacity = Some(0)

\* C22: where the assignment row that applies has capacity null, no admin
\* grant, single transition or bulk transition is refused with CapacityFull,
\* however many enrollments occupy the bucket
C22_NullCapacityNeverFull ==
  /\ \A studentId \in {"s1", "s2"}, courseId \in Courses :
        Unlimited(ResolvedFor(studentId, courseId, NULL)) =>
           AdminGrantRead("adm", studentId, courseId).outcome # "CapacityFull"
  /\ \A e \in enrollments, nextStatus \in ConfigTargets :
        Unlimited(ResolvedForRow(e)) =>
           PatchRead("adm", e.id, nextStatus).outcome # "CapacityFull"
  /\ \A ids \in SUBSET ExistingIds, nextStatus \in ConfigTargets :
        (\A e \in enrollments : e.id \in ids => Unlimited(ResolvedForRow(e))) =>
           BulkRead("iA", ids, nextStatus).outcome # "CapacityFull"

\* C23: where the assignment row that applies has capacity 0, every admin
\* grant, every single transition and every bulk transition to an
\* approved-like status is refused with CapacityFull (a bulk call may be
\* refused by its gate first), and no enrollment of that row's bucket holds
\* an occupying status
C23_ZeroCapacityClosed ==
  /\ \A a \in AssignmentRows : a.capacity = Some(0) => Occupancy(a) = 0
  /\ (last.op = "AdminGrant" /\ Closed(ResolvedFor(last.studentId, last.courseId, NULL)))
        => last.outcome \in {"CapacityFull", "Conflict"}
  /\ \A e \in enrollments, nextStatus \in ConfigTargets :
        (/\ Closed(ResolvedForRow(e))
         /\ normStatus(nextStatus) \in AllowedNow
         /\ normStatus(nextStatus) \in ApprovedLikeNow)
           => PatchRead("adm", e.id, nextStatus).outcome = "CapacityFull"
  /\ \A ids \in SUBSET ExistingIds \ {{}}, nextStatus \in ConfigTargets :
        (/\ \A e \in enrollments : e.id \in ids => Closed(ResolvedForRow(e))
         /\ Includes(loadEnrollmentStatusConfig.allowed, nextStatus)
         /\ normStatus(nextStatus) \in ApprovedLikeNow)
           => BulkRead("iA", ids, nextStatus).outcome
                 \in {"Forbidden", "CapacityFull"}

(* ------------------------------ eligibility gate ----------------------- *)

\* The roles of the admin tiers as the user table stores them
AdminTier(role) == role \in {STR_ADMIN, STR_SUPER_ADMIN, STR_superadmin}
PassesGate(u, e) == AdminTier(u.role) \/ CanModerate(u, e.courseId)

\* C24: a caller of an admin tier is never refused by the gate of a single
\* transition; a caller who is neither admin nor instructor, or has no
\* session, is refused by both transition paths; and the status of an
\* enrollment changes only in a transition by a caller who passes the gate
C24_StatusChangesOnlyThroughGate ==
  /\ [](\A e \in enrollments, nextStatus \in TargetStatuses :
          /\ PatchRead("anon", e.id, nextStatus).outcome = "Unauthorized"
          /\ BulkRead("anon", {e.id}, nextStatus).outcome = "Unauthorized"
          /\ \A u \in users :
                /\ AdminTier(u.role) =>
                      PatchRead(u.id, e.id, nextStatus).outcome # "Forbidden"
                /\ (~AdminTier(u.role) /\ ~isInstructor(u.role)) =>
                      /\ PatchRead(u.id, e.id, nextStatus).outcome = "Forbidden"
                      /\ BulkRead(u.id, {e.id}, nextStatus).outcome = "Forbidden")
  /\ [][\A e \in enrollments, f \in enrollments' :
          (e.id = f.id /\ e.status # f.status) =>
             /\ last'.op \in {"Patch", "Bulk"}
             /\ \E u \in users : u.id = last'.caller /\ PassesGate(u, e)]_vars

\* C25: an instructor passes the gate of a single transition for an
\* enrollment only if the instructor's departments (from the latest approved
\* instructor registration, else from permissions) hold a department the
\* enrollment's course is assigned to, or the course has a college-wide row
\* of the instructor's college
C25_InstructorGateNeedsAssignment ==
  \A u \in users, e \in enrollments, nextStatus \in TargetStatuses :
     (isInstructor(u.role)
        /\ PatchRead(u.id, e.id, nextStatus).outcome \notin {"Unauthorized", "Forbidden"})
     => LET aff == Val(getInstructorAffiliation(u.id)) IN
        \/ AssignedDepartments(e.courseId) \cap aff.departmentIds # {}
        \/ \E a \in AssignmentRows :
              /\ a.courseId = e.courseId /\ a.departmentId = NULL
              /\ aff.collegeId # NULL /\ a.collegeId = aff.collegeId

(* ------------------------------ delete --------------------------------- *)

\* C26: a delete that succeeds was called by an admin, removes the row it
\* names and no other, leaves every other row as it was, and raises the
\* occupancy of no assignment row; callers who are not admins are refused
C26_DeleteRemovesOneRow ==
  /\ [](\A u \in users, id \in IdInputs :
          ~AdminTier(u.role) => DeleteRead(u.id, id).outcome = "Forbidden")
  /\ [][(last'.op = "Delete" /\ last'.outcome = "Deleted") =>
          /\ \E u \in users : u.id = last'.caller /\ AdminTier(u.role)
          /\ \E id \in ExistingIds :
                /\ last'.result = {id}
                /\ enrollments' = {e \in enrollments : e.id # id}
          /\ \A a \in AssignmentRows :
                Cardinality({e \in enrollments' : Occupying(e) /\ InBucket(e, a)})
                   <= Occupancy(a)]_vars

C26_DeletedBesideOccupying ==
  /\ last.op = "Delete"
  /\ last.outcome = "Deleted"
  /\ \E e \in enrollments : Occupying(e) /\ e.id \notin last.result

\* C27: an admin's delete of an id that names no enrollment is answered
\* NotFound, never with an internal error, and changes no row
C27_DeleteMissingIsNotFound ==
  /\ [](last.op = "Delete" /\ last.caller = "adm"
          => last.outcome \in {"Deleted", "NotFound"})
  /\ [][(last'.op = "Delete" /\ last'.outcome # "Deleted")
          => enrollments' = enrollments]_vars

(* ------------------------------ bulk callers --------------------------- *)

\* C28: a bulk transition called by a user whose role is not instructor
\* (admin, super admin, student) is answered Forbidden whatever it names,
\* and changes no enrollment
C28_BulkInstructorsOnly ==
  /\ [](\A u \in users, ids \in BulkInputs \cup {{}}, nextStatus \in AnyStatuses :
          ToUpperCase(u.role) # STR_INSTRUCTOR =>
             LET c == BulkRead(u.id, ids, nextStatus) IN
             c.outcome = "Forbidden" /\ c.data = {})
  /\ [][(last'.op = "Bulk"
           /\ \E u \in users : u.id = last'.caller /\ ToUpperCase(u.role) # STR_INSTRUCTOR)
          => (last'.outcome = "Forbidden" /\ enrollments' = enrollments)]_vars

C28_AdminBulkRefused ==
  /\ last.op = "Bulk"
  /\ last.caller = "adm"
  /\ last.outcome = "Forbidden"
  /\ \E e \in enrollments : e.status = STR_PENDING

(* ------------------------------ status view ---------------------------- *)

\* One enrollment as the status view shows it
StatusOf(e, approvedLike) ==
  LET st == normStatus(e.status) IN
  [exists |-> TRUE, id |-> e.id, courseId |-> e.courseId, studentId |-> e.studentId,
   status |-> st, isApproved |-> st \in approvedLike, isRejected |-> st = STR_REJECTED,
   departmentId |-> e.departmentId]

\* The view that ignores who asks: students are served like staff
StatusViewStaffOnly(rows, caller, courseId, studentId) ==
  LET approvedLike == Range(Map(loadEnrollmentStatusConfig.approved_like, normStatus))
      Single(sid) ==
        {StatusOf(e, approvedLike) : e \in {x \in rows : x.courseId = courseId /\ x.studentId = sid}}
      list == {StatusOf(e, approvedLike) : e \in {x \in rows : x.courseId = courseId}}
  IN IF studentId # NULL
     THEN [outcome |-> "Viewed", data |-> Single(studentId), summary |-> Null]
     ELSE [outcome |-> "Listed", data |-> list, summary |-> Null]

\* GET /courses/:courseId/enrollment-requests over the Enrollment table
\* `rows`: the response (one status, or the list with its counts). The pair
\* (studentId, courseId) is unique, so findFirst has one row to return.
StatusViewOn(rows, caller, courseId, studentId) ==
  LET user == FindUser(caller)
      approvedLike == Range(Map(loadEnrollmentStatusConfig.approved_like, normStatus))
      Single(sid) ==
        {StatusOf(e, approvedLike) : e \in {x \in rows : x.courseId = courseId /\ x.studentId = sid}}
      list == {StatusOf(e, approvedLike) : e \in {x \in rows : x.courseId = courseId}}
      approved == Cardinality({r \in list : r.isApproved})
      rejected == Cardinality({r \in list : ~r.isApproved /\ r.isRejected})
      summary ==
        [total |-> Cardinality(list), approved |-> approved, rejected |-> rejected,
         pending |-> Cardinality(list) - approved - rejected]
      refused(o) == [outcome |-> o, data |-> {}, summary |-> Null]
  IN IF IsNull(user) THEN refused("Unauthorized")
     ELSE IF isStudent(Val(user).role)
     THEN [outcome |-> "Viewed", data |-> Single(caller), summary |-> Null]
     ELSE IF isInstructor(Val(user).role) /\ ~ensureCanModerateCourse(Val(user), courseId)
     THEN refused("Forbidden")
     ELSE IF studentId # NULL
     THEN [outcome |-> "Viewed", data |-> Single(studentId), summary |-> Null]
     ELSE [outcome |-> "Listed", data |-> list, summary |-> Some(summary)]

StatusView(caller, courseId, studentId) ==
  LET v == StatusViewOn(enrollments, caller, courseId, studentId) IN
  Handle([Call("View", caller, studentId, courseId, {}, <<>>) EXCEPT
            !.outcome = v.outcome, !.result = {r.id : r \in v.data}])

DoStatusView ==
  \E caller \in {"s1", "s2", "iA", "adm"}, courseId \in Courses,
     studentId \in {"s1", "s2", NULL} : StatusView(caller, courseId, studentId)

NextView ==
  \/ ConfigRequest
  \/ ConfigGrant
  \/ ConfigPatch
  \/ DoStatusView

SpecView == InitConfig /\ [][NextView]_vars

\* C29: what the status view answers to a student is what it answers on the
\* table holding that student's rows alone and with no studentId filter: it
\* does not vary with the other students' enrollments nor with the filter,
\* and it shows no row of another student
C29_StudentSeesOwnStatusOnly ==
  \A u \in users, courseId \in Courses, studentId \in Students \cup {NULL} :
     ToUpperCase(u.role) = STR_STUDENT =>
        LET v == StatusViewOn(enrollments, u.id, courseId, studentId) IN
        /\ v = StatusViewOn({e \in enrollments : e.studentId = u.id}, u.id, courseId, NULL)
        /\ \A r \in v.data : r.studentId = u.id

C29_StudentAskedForAnother ==
  /\ last.op = "View"
  /\ last.caller = "s1"
  /\ last.studentId = "s2"
  /\ \E e \in enrollments : e.studentId = "s2" /\ Occupying(e)
  /\ \E e \in enrollments : e.studentId = "s1" /\ e.id \in last.result

(* ------------------------------ demotion ------------------------------- *)

\* C30: for every caller who passes the eligibility gate, a single
\* transition of any enrollment to an allowed status that is not
\* approved-like is carried out, whatever the capacity and the occupancy of
\* its bucket, and leaves the enrollment non-occupying
C30_DemotionAlwaysSucceeds ==
  \A u \in users, e \in enrollments, nextStatus \in ConfigTargets :
     (/\ PassesGate(u, e)
      /\ normStatus(nextStatus) \in AllowedNow
      /\ normStatus(nextStatus) \notin ApprovedLikeNow)
     => LET p == PatchRead(u.id, e.id, nextStatus) IN
        /\ p.outcome = "Pending"
        /\ WriteResponse(p).outcome = "Updated"
        /\ \A d \in p.data : d.id = e.id /\ d.status = normStatus(nextStatus)

(* ------------------------------ no approved-like status ---------------- *)

\* C31: while the configured approved_like list is empty, no admin grant,
\* single transition or bulk transition is refused with CapacityFull,
\* whatever the capacity of the assignment rows (0 included)
C31_EmptyApprovedLikeNeverFull ==
  (~IsNull(setting) /\ Val(setting).approved_like = <<>>) =>
     /\ last.outcome # "CapacityFull"
     /\ \A studentId \in {"s1", "s2"}, courseId \in Courses :
           AdminGrantRead("adm", studentId, courseId).outcome # "CapacityFull"
     /\ \A id \in ExistingIds, nextStatus \in ConfigTargets :
           PatchRead("adm", id, nextStatus).outcome # "CapacityFull"
     /\ \A ids \in SUBSET ExistingIds, nextStatus \in ConfigTargets :
           BulkRead("iA", ids, nextStatus).outcome # "CapacityFull"

C31_GrantedIntoClosedRow ==
  /\ ~IsNull(setting) /\ Val(setting).approved_like = <<>>
  /\ \A a \in AssignmentRows : a.capacity = Some(0)
  /\ last.op \in {"Patch", "Bulk"}
  /\ last.outcome = "Updated"
  /\ Cardinality({e \in enrollments : e.status = STR_APPROVED}) = 2

(* ------------------------------ normalisation -------------------------- *)

\* occupying enrollments of a course among the students of a college
OccupyingAtCollege(courseId, collegeId) ==
  Cardinality({e \in enrollments :
     /\ e.courseId = courseId /\ Occupying(e)
     /\ CurrentCollege(e.studentId) = collegeId})
OccupyingAtDepartment(courseId, departmentId) ==
  Cardinality({e \in enrollments :
     /\ e.courseId = courseId /\ Occupying(e) /\ e.departmentId = departmentId})

\* C32: the count a capacity check uses holds every enrollment of its scope
\* whose stored status, normalised, is a normalised approved_like value,
\* in the single transition, the admin grant and the bulk transition
C32_CountsNormalisedStatuses ==
  /\ \A e \in enrollments, nextStatus \in ConfigTargets :
        LET p == PatchRead("adm", e.id, nextStatus) IN
        ~IsNull(p.used) =>
           LET a == AssignmentById(p.assignment) IN
           Val(p.used) = IF a.departmentId # NULL
                         THEN OccupyingAtDepartment(e.courseId, a.departmentId)
                         ELSE OccupyingAtCollege(e.courseId, a.collegeId)
  /\ \A studentId \in {"s1", "s2"}, courseId \in Courses :
        LET g == AdminGrantRead("adm", studentId, courseId) IN
        ~IsNull(g.used) =>
           Val(g.used) = OccupyingAtCollege(courseId, CurrentCollege(studentId))
  /\ \A ids \in SUBSET ExistingIds \ {{}}, nextStatus \in ConfigTargets :
        LET b == BulkRead("iA", ids, nextStatus) IN
        ~IsNull(b.used) =>
           Val(b.used) = OccupyingAtCollege("c1", AssignmentById(b.assignment).collegeId)

(* ------------------------------ single-path resolution ----------------- *)

\* Tables as in Init, with one request on file: s2 asked for c1 while
\* registered without a department (the older registration of s2), so the
\* row carries no departmentId; s2's latest registration is department A
InitResolve ==
  /\ coursesAssigned \in AssignmentTables
  /\ setting \in SettingValues
  /\ enrollments =
       {[id |-> <<"s2", "c1", 1>>, studentId |-> "s2", courseId |-> "c1",
         status |-> STR_PENDING, departmentId |-> NULL, startedAt |-> Null,
         progress |-> 0]}
  /\ incarnations = [p \in Pairs |-> IF p = <<"s2", "c1">> THEN 1 ELSE 0]
  /\ now = 1
  /\ last = NoObserved
  /\ reqs = [r \in Slots |-> NoCall]

SpecResolve == InitResolve /\ [][NextFixed]_vars

\* The rows the resolver is to return for enrollment e: the row of the
\* department (the enrollment's, else the student's) in the student's
\* college, else the college-wide row of that college
ExpectedRows(e) ==
  LET college == CurrentCollege(e.studentId)
      dept == IF e.departmentId # NULL THEN e.departmentId
              ELSE CurrentDepartment(e.studentId)
      ofCollege == {a \in AssignmentRows :
                      a.courseId = e.courseId /\ a.collegeId = college}
      deptRows == {a \in ofCollege : dept # NULL /\ a.departmentId = dept}
  IN IF college = NULL THEN {}
     ELSE IF deptRows # {} THEN deptRows
     ELSE {a \in ofCollege : a.departmentId = NULL}

\* enrollments of row a's scope stored with one of the statuses counted
ScopeCount(a, statuses) ==
  Cardinality({x \in enrollments :
     /\ x.courseId = a.courseId
     /\ Includes(statuses, x.status)
     /\ IF a.departmentId # NULL THEN x.departmentId = a.departmentId
        ELSE CurrentCollege(x.studentId) = a.collegeId})

\* C33: a single transition to an approved-like status applies the row of
\* the enrollment's (else the student's) department when the student's
\* college has one for the course, else the college-wide row; it counts at
\* the department when that row is department-level and at the college when
\* it is college-wide, refuses when the count reaches the capacity, and
\* answers CourseNotAssigned, writing nothing, when there is no such row
C33_SingleResolvesMostSpecific ==
  /\ [](\A e \in enrollments, nextStatus \in TargetStatuses :
          LET p == PatchRead("adm", e.id, nextStatus)
              statuses == Map(loadEnrollmentStatusConfig.approved_like, normStatus)
          IN (normStatus(nextStatus) \in AllowedNow
                /\ normStatus(nextStatus) \in ApprovedLikeNow) =>
             /\ ExpectedRows(e) = {} =>
                   (p.outcome = "CourseNotAssigned" /\ p.data = {})
             /\ \A a \in ExpectedRows(e) :
                   /\ p.assignment = a.id
                   /\ IsNull(a.capacity) => p.outcome = "Pending"
                   /\ ~IsNull(a.capacity) =>
                         /\ p.used = Some(ScopeCount(a, statuses))
                         /\ p.outcome = "CapacityFull"
                               <=> ScopeCount(a, statuses) >= Val(a.capacity))
  /\ [][(last'.op = "Patch" /\ last'.outcome = "CourseNotAssigned")
          => enrollments' = enrollments]_vars

\* s2's row without departmentId was approved against the department A row
\* of a table that also holds the college-wide row
C33_AffiliationDepartmentUsed ==
  /\ last.op = "Patch"
  /\ last.outcome = "Updated"
  /\ last.resolved = {<<"s2", "asgXA">>}
  /\ \E a \in AssignmentRows : a.id = "asgX"
  /\ \E e \in enrollments :
        e.id = <<"s2", "c1", 1>> /\ e.departmentId = NULL /\ Occupying(e)

(* ------------------------------ the two transition paths --------------- *)

\* C34: for every instructor and every enrollment, the gate of the single
\* transition lets the instructor through exactly when the per-enrollment
\* gate of the bulk transition does
C34_SameGateOnBothPaths ==
  \A u \in users, e \in enrollments :
     isInstructor(u.role) =>
        (isEligibleInstructorForEnrollment(u.id, e.id)
           <=> ensureCanModerateCourse(u, e.courseId))


\* C35: for every configuration, enrollment and target status that both
\* gates let through, the single transition refuses the status as invalid
\* exactly when the bulk transition does, both classify it as occupying or
\* not alike, and both would store the same value
C35_SameStatusesOnBothPaths ==
  \A e \in enrollments, t \in ConfigTargets :
     LET p == PatchRead("adm", e.id, t)
         b == BulkRead("iA", {e.id}, t)
         statusCfg == loadEnrollmentStatusConfig
     IN (p.outcome # "Forbidden" /\ b.outcome # "Forbidden") =>
          /\ p.outcome = "InvalidStatus" <=> b.outcome = "InvalidStatus"
          /\ (p.outcome # "InvalidStatus" /\ b.outcome # "InvalidStatus") =>
               (Includes(Map(statusCfg.approved_like, normStatus), normStatus(t))
                  <=> Includes(statusCfg.approved_like, t))
          /\ (p.data # {} /\ b.data # {}) =>
               {d.status : d \in p.data} = {d.status : d \in b.data}


\* C36: an enrollment that already occupies a seat, in a bucket holding
\* exactly as many occupying enrollments as the capacity of the row that
\* applies, is not refused with CapacityFull when a single or a bulk
\* transition moves it to an approved-like status
C36_ReapprovalNeverFull ==
  \A e \in enrollments, nextStatus \in TargetStatuses :
     LET found == ResolvedForRow(e) IN
     (/\ Occupying(e)
      /\ normStatus(nextStatus) \in ApprovedLikeNow
      /\ ~IsNull(found)
      /\ ~IsNull(Val(found).capacity)
      /\ Occupancy(Val(found)) = Val(Val(found).capacity))
       => /\ PatchRead("adm", e.id, nextStatus).outcome # "CapacityFull"
          /\ BulkRead("iA", {e.id}, nextStatus).outcome # "CapacityFull"


(* ------------------------------ self-requests that overlap ------------- *)

\* C37: when two self-requests of one student for one course both passed
\* the existence check before either created its row and both have
\* answered, the pair has exactly one enrollment, both answers return it,
\* and neither answer is an error
C37_OverlappingRequestsBothReturnRow ==
  \A r, q \in Slots :
     (/\ r # q
      /\ reqs[r].op = "SelfRequest" /\ reqs[q].op = "SelfRequest"
      /\ reqs[r].caller = reqs[q].caller
      /\ reqs[r].courseId = reqs[q].courseId
      /\ reqs[r].data # {} /\ reqs[q].data # {}
      /\ reqs[r].outcome # "Pending" /\ reqs[q].outcome # "Pending")
       => /\ Cardinality(FindExisting(reqs[r].courseId, reqs[r].caller)) = 1
          /\ reqs[r].outcome \in {"Created", "Existing"}
          /\ reqs[q].outcome \in {"Created", "Existing"}
          /\ reqs[r].result = {e.id : e \in FindExisting(reqs[r].courseId, reqs[r].caller)}
          /\ reqs[q].result = reqs[r].result


(* ------------------------------ what a transition leaves alone --------- *)

\* the row of rows that carries id
RowById(rows, id) == CHOOSE x \in rows : x.id = id

\* C38: a single or bulk transition that succeeds keeps the set of
\* enrollments, leaves every enrollment it was not given exactly as it was,
\* and keeps studentId, courseId, departmentId and progress of the ones it
\* was given: only their status and startedAt may differ
C38_TransitionChangesOnlyStatus ==
  [][(last'.op \in {"Patch", "Bulk"} /\ last'.outcome = "Updated") =>
       /\ {e.id : e \in enrollments'} = {e.id : e \in enrollments}
       /\ \A e \in enrollments :
             LET after == RowById(enrollments', e.id) IN
             IF e.id \in last'.result
             THEN after = [e EXCEPT !.status = after.status,
                                    !.startedAt = after.startedAt]
             ELSE after = e]_vars

\* a single transition just rejected one request while another enrollment,
\* which it was not given, stands beside it
C38_RejectedBesideAnother ==
  /\ last.op = "Patch" /\ last.outcome = "Updated"
  /\ \E e \in enrollments :
        /\ e.id \in last.result
        /\ e.status = STR_REJECTED
        /\ e.departmentId # NULL
  /\ \E e \in enrollments : e.id \notin last.result

====
